---- MODULE Spec2Model ----
(***************************************************************************)
(* Momentum Journal: the `momentum new` session.  The model covers the     *)
(* Bubble Tea root model of package tui (focus routing, quit, resize),     *)
(* the modal writing pane built on a textarea, the status bar, the word    *)
(* counters, and the part of the `new` command that creates the journal    *)
(* entry and runs the program.                                             *)
(***************************************************************************)
EXTENDS Integers, Sequences, FiniteSets, TLC

\* ------------------------------------------------------------------ bounds
\* Longest buffer content the model lets the textarea hold.
MaxLen == 2
\* Largest width and height of the range of terminal sizes the layout
\* specification resizes to.
MaxWidth == 40
MaxHeight == 6

\* ------------------------------------------------ enumerations of the code
writingPane == "writingPane"
conversationPane == "conversationPane"
modeNormal == "modeNormal"
modeInsert == "modeInsert"

\* tea.Cmd values are modelled as the set of deferred actions they batch;
\* the empty set is the nil command.
NilCmd == {}
QuitCmd == {"Quit"}
BlinkCmd == {"Blink"}

\* ------------------------------------------------------------ input events
\* Keys that carry a rune (msg.String() is the rune itself): the letters of
\* the scenario i-Hello, the reserved Normal-mode key o, the quit key q and
\* the space.
RuneKeys == {"i", "o", "H", "e", "l", "q", " "}
\* The Normal-mode verbs, and the further letters the Normal-mode switch
\* names; in Insert mode they are text like any other rune.
VerbKeys == {"w", "b", "g", "G", "x", "d", "y", "p"}
NormalOnlyKeys == VerbKeys \cup {"h", "j", "k", "a"}
Runes == RuneKeys \cup NormalOnlyKeys
\* Keys without a rune.
SpecialKeys == {"esc", "tab", "ctrl+c", "backspace", "left", "right"}
Keys == RuneKeys \cup SpecialKeys

\* Terminal sizes delivered by resize events.
TermSizes == {<<120, 40>>, <<15, 5>>}

KeyMsg(k) == [type |-> "KeyMsg", key |-> k, Width |-> 0, Height |-> 0]
WindowSizeMsg(w, h) == [type |-> "WindowSizeMsg", key |-> "", Width |-> w, Height |-> h]
NoMsg == [type |-> "none", key |-> "", Width |-> 0, Height |-> 0]

\* A message that is neither a key nor a resize: the cursor's blink tick.
BlinkMsg == [type |-> "BlinkMsg", key |-> "", Width |-> 0, Height |-> 0]

\* ------------------------------------------------ textarea (bubbles widget)
\* The widget keeps the text, a cursor offset into it, and a focus flag.
textareaNew == [value |-> <<>>, cursor |-> 0, focus |-> FALSE, width |-> 0, height |-> 0]

textareaFocus(ta) == [ta EXCEPT !.focus = TRUE]

textareaBlur(ta) == [ta EXCEPT !.focus = FALSE]

textareaValue(ta) == ta.value

InsertAt(s, i, c) == SubSeq(s, 1, i) \o <<c>> \o SubSeq(s, i + 1, Len(s))

DeleteAt(s, i) == SubSeq(s, 1, i - 1) \o SubSeq(s, i + 1, Len(s))

\* textarea.Update that handles keys whether or not the widget is focused.
textareaUpdateUnfocused(ta, k) ==
  IF k = "left" THEN
         [ta |-> [ta EXCEPT !.cursor = IF ta.cursor > 0 THEN ta.cursor - 1 ELSE 0], cmd |-> NilCmd]
  ELSE IF k = "right" THEN
         [ta |-> [ta EXCEPT !.cursor = IF ta.cursor < Len(ta.value) THEN ta.cursor + 1 ELSE ta.cursor],
          cmd |-> NilCmd]
  ELSE IF k = "backspace" THEN
         [ta |-> IF ta.cursor > 0
                 THEN [ta EXCEPT !.value = DeleteAt(ta.value, ta.cursor), !.cursor = ta.cursor - 1]
                 ELSE ta,
          cmd |-> NilCmd]
  ELSE IF k \in Runes THEN
         [ta |-> IF Len(ta.value) < MaxLen
                 THEN [ta EXCEPT !.value = InsertAt(ta.value, ta.cursor, k), !.cursor = ta.cursor + 1]
                 ELSE ta,
          cmd |-> NilCmd]
  ELSE [ta |-> ta, cmd |-> NilCmd]

\* textarea.Update for a key: a blurred textarea ignores every message; a
\* focused one moves the cursor, deletes backwards, or inserts the rune.
textareaUpdate(ta, k) ==
  IF ~ta.focus THEN [ta |-> ta, cmd |-> NilCmd]
  ELSE IF k = "left" THEN
         [ta |-> [ta EXCEPT !.cursor = IF ta.cursor > 0 THEN ta.cursor - 1 ELSE 0], cmd |-> NilCmd]
  ELSE IF k = "right" THEN
         [ta |-> [ta EXCEPT !.cursor = IF ta.cursor < Len(ta.value) THEN ta.cursor + 1 ELSE ta.cursor],
          cmd |-> NilCmd]
  ELSE IF k = "backspace" THEN
         [ta |-> IF ta.cursor > 0
                 THEN [ta EXCEPT !.value = DeleteAt(ta.value, ta.cursor), !.cursor = ta.cursor - 1]
                 ELSE ta,
          cmd |-> NilCmd]
  ELSE IF k \in Runes THEN
         [ta |-> IF Len(ta.value) < MaxLen
                 THEN [ta EXCEPT !.value = InsertAt(ta.value, ta.cursor, k), !.cursor = ta.cursor + 1]
                 ELSE ta,
          cmd |-> NilCmd]
  ELSE [ta |-> ta, cmd |-> NilCmd]

\* ------------------------------------------------------------ writing pane
NewWritingModel ==
  [textarea |-> textareaBlur(textareaFocus(textareaNew)),
   mode |-> modeInsert, width |-> 0, height |-> 0]

writingInit(m) == IF m.mode = modeInsert THEN BlinkCmd ELSE NilCmd

\* The mode indicator is one line of text in either mode.
renderModeIndicatorHeight(m) == 1

\* bubbles clamps the textarea height to at least one line.
textareaSetHeight(ta, h) == [ta EXCEPT !.height = IF h < 1 THEN 1 ELSE h]

textareaSetWidth(ta, w) == [ta EXCEPT !.width = w]

writingSetSize(m, w, h) ==
  [m EXCEPT !.width = w, !.height = h,
            !.textarea = textareaSetHeight(textareaSetWidth(m.textarea, w),
                                           h - renderModeIndicatorHeight(m))]

\* Focus that focuses the buffer but returns no command.
writingFocusNoCmd(m) ==
  IF m.mode = modeInsert
  THEN [m |-> [m EXCEPT !.textarea = textareaFocus(m.textarea)], cmd |-> NilCmd]
  ELSE [m |-> m, cmd |-> NilCmd]

\* Focus that focuses the buffer whatever the mode.
writingFocusAlways(m) ==
  [m |-> [m EXCEPT !.textarea = textareaFocus(m.textarea)], cmd |-> BlinkCmd]

\* writingModel.Focus.
writingFocus(m) ==
  IF m.mode = modeInsert
  THEN [m |-> [m EXCEPT !.textarea = textareaFocus(m.textarea)], cmd |-> BlinkCmd]
  ELSE [m |-> m, cmd |-> NilCmd]

writingBlur(m) == [m EXCEPT !.textarea = textareaBlur(m.textarea)]

\* Keys of the Normal-mode switch whose case has an empty body.
NormalReserved == {"a", "o", "w", "b", "g", "G", "x", "d", "y", "p"}

NormalMovement == {"h", "j", "k", "l", "up", "down", "left", "right"}

\* writingUpdate with an Escape case that blurs the buffer but keeps the mode.
writingUpdateKeepMode(m, k) ==
  IF m.mode = modeInsert THEN
    IF k = "esc"
    THEN [m |-> [m EXCEPT !.textarea = textareaBlur(m.textarea)], cmd |-> NilCmd]
    ELSE LET r == textareaUpdate(m.textarea, k)
         IN [m |-> [m EXCEPT !.textarea = r.ta], cmd |-> r.cmd]
  ELSE
    IF k = "i"
    THEN [m |-> [m EXCEPT !.mode = modeInsert, !.textarea = textareaFocus(m.textarea)],
          cmd |-> BlinkCmd]
    ELSE IF k \in NormalReserved
    THEN [m |-> m, cmd |-> NilCmd]
    ELSE LET r == textareaUpdate(m.textarea, k)
         IN [m |-> [m EXCEPT !.textarea = r.ta], cmd |-> r.cmd]

\* writingUpdate whose d case deletes the text instead of doing nothing.
writingUpdateDeleteLine(m, k) ==
  IF m.mode = modeInsert THEN
    IF k = "esc"
    THEN [m |-> [m EXCEPT !.mode = modeNormal, !.textarea = textareaBlur(m.textarea)],
          cmd |-> NilCmd]
    ELSE LET r == textareaUpdate(m.textarea, k)
         IN [m |-> [m EXCEPT !.textarea = r.ta], cmd |-> r.cmd]
  ELSE
    IF k = "i"
    THEN [m |-> [m EXCEPT !.mode = modeInsert, !.textarea = textareaFocus(m.textarea)],
          cmd |-> BlinkCmd]
    ELSE IF k = "d"
    THEN [m |-> [m EXCEPT !.textarea.value = <<>>, !.textarea.cursor = 0], cmd |-> NilCmd]
    ELSE IF k \in NormalReserved
    THEN [m |-> m, cmd |-> NilCmd]
    ELSE LET r == textareaUpdate(m.textarea, k)
         IN [m |-> [m EXCEPT !.textarea = r.ta], cmd |-> r.cmd]

\* writingUpdate whose Insert-mode default drops the textarea it updated.
writingUpdateDropResult(m, k) ==
  IF m.mode = modeInsert THEN
    IF k = "esc"
    THEN [m |-> [m EXCEPT !.mode = modeNormal, !.textarea = textareaBlur(m.textarea)],
          cmd |-> NilCmd]
    ELSE [m |-> m, cmd |-> textareaUpdate(m.textarea, k).cmd]
  ELSE
    IF k = "i"
    THEN [m |-> [m EXCEPT !.mode = modeInsert, !.textarea = textareaFocus(m.textarea)],
          cmd |-> BlinkCmd]
    ELSE IF k \in NormalReserved
    THEN [m |-> m, cmd |-> NilCmd]
    ELSE LET r == textareaUpdate(m.textarea, k)
         IN [m |-> [m EXCEPT !.textarea = r.ta], cmd |-> r.cmd]

\* writingUpdate with an Escape case that switches the mode and leaves the
\* buffer focused.
writingUpdateEscNoBlur(m, k) ==
  IF m.mode = modeInsert THEN
    IF k = "esc"
    THEN [m |-> [m EXCEPT !.mode = modeNormal], cmd |-> NilCmd]
    ELSE LET r == textareaUpdate(m.textarea, k)
         IN [m |-> [m EXCEPT !.textarea = r.ta], cmd |-> r.cmd]
  ELSE
    IF k = "i"
    THEN [m |-> [m EXCEPT !.mode = modeInsert, !.textarea = textareaFocus(m.textarea)],
          cmd |-> BlinkCmd]
    ELSE IF k \in NormalReserved
    THEN [m |-> m, cmd |-> NilCmd]
    ELSE LET r == textareaUpdate(m.textarea, k)
         IN [m |-> [m EXCEPT !.textarea = r.ta], cmd |-> r.cmd]

\* writingModel.Update for a key message.
writingUpdate(m, k) ==
  IF m.mode = modeInsert THEN
    IF k = "esc"
    THEN [m |-> [m EXCEPT !.mode = modeNormal, !.textarea = textareaBlur(m.textarea)],
          cmd |-> NilCmd]
    ELSE LET r == textareaUpdate(m.textarea, k)
         IN [m |-> [m EXCEPT !.textarea = r.ta], cmd |-> r.cmd]
  ELSE
    IF k = "i"
    THEN [m |-> [m EXCEPT !.mode = modeInsert, !.textarea = textareaFocus(m.textarea)],
          cmd |-> BlinkCmd]
    ELSE IF k \in NormalReserved
    THEN [m |-> m, cmd |-> NilCmd]
    ELSE IF k \in NormalMovement
    THEN LET r == textareaUpdate(m.textarea, k)
         IN [m |-> [m EXCEPT !.textarea = r.ta], cmd |-> r.cmd]
    ELSE LET r == textareaUpdate(m.textarea, k)
         IN [m |-> [m EXCEPT !.textarea = r.ta], cmd |-> r.cmd]

\* writingModel.WordCount: the length of the textarea's value.
WordCount(m) == Len(textareaValue(m.textarea))

\* ------------------------------------------------------------ journal
IsSpace(c) == c \in {" ", "\n", "\t"}

\* strings.Fields: the maximal runs of non-whitespace characters.
CountWords(text) ==
  Cardinality({i \in 1..Len(text) : ~IsSpace(text[i]) /\ (i = 1 \/ IsSpace(text[i - 1]))})

\* ------------------------------------------------------------ sub-models
newConvoModel == [width |-> 0, height |-> 0]

convoSetSize(m, w, h) == [m EXCEPT !.width = w, !.height = h]

newStatusBarModel == [width |-> 0]

statusBarSetSize(m, w) == [m EXCEPT !.width = w]

\* Lengths of the words of the status line
\* "Status: Word Count 0/750 | [Tab] to switch panes | [q] to quit".
StatusWords == <<7, 4, 5, 5, 1, 5, 2, 6, 5, 1, 3, 2, 4>>

RECURSIVE WrapLines(_, _, _, _)
\* Number of lines a greedy word wrap at `limit` columns produces for the
\* words ws[i..], `cur` columns of the current line being taken.
WrapLines(ws, i, cur, limit) ==
  IF i > Len(ws) THEN 1
  ELSE IF cur = 0 THEN WrapLines(ws, i + 1, ws[i], limit)
  ELSE IF cur + 1 + ws[i] > limit THEN 1 + WrapLines(ws, i + 1, ws[i], limit)
  ELSE WrapLines(ws, i + 1, cur + 1 + ws[i], limit)

\* The length of the status line in columns.
StatusLineLength == 62

\* A status bar that is one line high whatever its width.
statusBarViewHeightOneLine(m) == 1

\* lipgloss.Height(statusBarModel.View()): the style wraps the status line
\* at the stored width when that width is positive.
statusBarViewHeight(m) ==
  IF m.width > 0 THEN WrapLines(StatusWords, 1, 0, m.width) ELSE 1

\* The word count the status line shows: the literal 0 of "Word Count 0/750".
statusBarShownCount(m) == 0

\* The goal the status line shows: the literal 750 of "Word Count 0/750".
statusBarShownGoal(m) == 750

\* paneStyle: rounded border (1 column/row each side), Padding(1, 2).
HorizontalBorderSize == 2
VerticalBorderSize == 2
HorizontalFrameSize == 6
VerticalFrameSize == 4

\* ------------------------------------------------------------ root model
InitialModel ==
  [width |-> 0, height |-> 0,
   focusedPane |-> writingPane,
   writingModel |-> NewWritingModel,
   convoModel |-> newConvoModel,
   statusBarModel |-> newStatusBarModel,
   quitting |-> FALSE]

modelInit(m) == writingInit(m.writingModel)

\* The 65% share rounded to the nearest integer instead of truncated.
WritingShareRounded(w) == (13 * w + 10) \div 20

\* int(float64(width) * 0.65): truncation of 13*width/20.
WritingShare(w) == (13 * w) \div 20

\* updateSizes that never sizes the conversation pane.
updateSizesNoConvo(m) ==
  LET statusBarHeight == statusBarViewHeight(m.statusBarModel)
      mainHeight == m.height - statusBarHeight
      w0 == WritingShare(m.width)
      w1 == IF w0 < 10 THEN 10 ELSE w0
      c0 == m.width - w1
      convoWidth == IF c0 < 10 THEN 10 ELSE c0
      writingWidth == IF c0 < 10 THEN m.width - convoWidth ELSE w1
  IN [m EXCEPT
        !.writingModel = writingSetSize(m.writingModel,
                                        writingWidth - HorizontalBorderSize,
                                        mainHeight - VerticalBorderSize),
        !.statusBarModel = statusBarSetSize(m.statusBarModel, m.width)]

\* updateSizes that keeps the writing width when the conversation width is
\* raised to its minimum.
updateSizesNoReadjust(m) ==
  LET statusBarHeight == statusBarViewHeight(m.statusBarModel)
      mainHeight == m.height - statusBarHeight
      w0 == WritingShare(m.width)
      writingWidth == IF w0 < 10 THEN 10 ELSE w0
      c0 == m.width - writingWidth
      convoWidth == IF c0 < 10 THEN 10 ELSE c0
  IN [m EXCEPT
        !.writingModel = writingSetSize(m.writingModel,
                                        writingWidth - HorizontalBorderSize,
                                        mainHeight - VerticalBorderSize),
        !.convoModel = convoSetSize(m.convoModel,
                                    convoWidth - HorizontalBorderSize,
                                    mainHeight - VerticalBorderSize),
        !.statusBarModel = statusBarSetSize(m.statusBarModel, m.width)]

updateSizes(m) ==
  LET statusBarHeight == statusBarViewHeight(m.statusBarModel)
      mainHeight == m.height - statusBarHeight
      w0 == WritingShare(m.width)
      w1 == IF w0 < 10 THEN 10 ELSE w0
      c0 == m.width - w1
      convoWidth == IF c0 < 10 THEN 10 ELSE c0
      writingWidth == IF c0 < 10 THEN m.width - convoWidth ELSE w1
  IN [m EXCEPT
        !.writingModel = writingSetSize(m.writingModel,
                                        writingWidth - HorizontalBorderSize,
                                        mainHeight - VerticalBorderSize),
        !.convoModel = convoSetSize(m.convoModel,
                                    convoWidth - HorizontalBorderSize,
                                    mainHeight - VerticalBorderSize),
        !.statusBarModel = statusBarSetSize(m.statusBarModel, m.width)]

QuitKeys == {"ctrl+c", "q"}

\* updateQuit that returns the Quit command without setting the flag.
updateQuitNoFlag(m) == [m |-> m, cmd |-> QuitCmd]

\* case "ctrl+c", "q".
updateQuit(m) == [m |-> [m EXCEPT !.quitting = TRUE], cmd |-> QuitCmd]

\* updateTab that leaves the buffer focused when focus moves away.
updateTabNoBlur(m) ==
  IF m.focusedPane = writingPane
  THEN [m |-> [m EXCEPT !.focusedPane = conversationPane], cmd |-> NilCmd]
  ELSE LET r == writingFocus(m.writingModel)
       IN [m |-> [m EXCEPT !.focusedPane = writingPane, !.writingModel = r.m],
           cmd |-> r.cmd]

\* updateTab whose second branch forgets to move the focus back.
updateTabOneWay(m) ==
  IF m.focusedPane = writingPane
  THEN [m |-> [m EXCEPT !.focusedPane = conversationPane,
                        !.writingModel = writingBlur(m.writingModel)],
        cmd |-> NilCmd]
  ELSE LET r == writingFocus(m.writingModel)
       IN [m |-> [m EXCEPT !.writingModel = r.m], cmd |-> r.cmd]

\* case "tab".
updateTab(m) ==
  IF m.focusedPane = writingPane
  THEN [m |-> [m EXCEPT !.focusedPane = conversationPane,
                        !.writingModel = writingBlur(m.writingModel)],
        cmd |-> NilCmd]
  ELSE LET r == writingFocus(m.writingModel)
       IN [m |-> [m EXCEPT !.focusedPane = writingPane, !.writingModel = r.m],
           cmd |-> r.cmd]

\* updateDelegate that hands the key to the writing pane whatever the focus.
updateDelegateAlways(m, k) ==
  LET r == writingUpdate(m.writingModel, k)
  IN [m |-> [m EXCEPT !.writingModel = r.m], cmd |-> r.cmd]

\* default: delegate the key to the focused pane.
updateDelegate(m, k) ==
  IF m.focusedPane = writingPane
  THEN LET r == writingUpdate(m.writingModel, k)
       IN [m |-> [m EXCEPT !.writingModel = r.m], cmd |-> r.cmd]
  ELSE [m |-> m, cmd |-> NilCmd]

\* model.Update that hands other messages to the writing pane's textarea,
\* whose focused cursor answers a blink tick with the next blink command.
modelUpdatePassTicks(m, msg) ==
  IF msg.type = "WindowSizeMsg"
  THEN [m |-> updateSizes([m EXCEPT !.width = msg.Width, !.height = msg.Height]),
        cmd |-> NilCmd]
  ELSE IF msg.type = "KeyMsg"
  THEN IF msg.key \in QuitKeys THEN updateQuit(m)
       ELSE IF msg.key = "tab" THEN updateTab(m)
       ELSE updateDelegate(m, msg.key)
  ELSE [m |-> m, cmd |-> IF m.writingModel.textarea.focus THEN BlinkCmd ELSE NilCmd]

\* model.Update.
modelUpdate(m, msg) ==
  IF msg.type = "WindowSizeMsg"
  THEN [m |-> updateSizes([m EXCEPT !.width = msg.Width, !.height = msg.Height]),
        cmd |-> NilCmd]
  ELSE IF msg.type = "KeyMsg"
  THEN IF msg.key \in QuitKeys THEN updateQuit(m)
       ELSE IF msg.key = "tab" THEN updateTab(m)
       ELSE updateDelegate(m, msg.key)
  ELSE [m |-> m, cmd |-> NilCmd]

\* ------------------------------------------------------------ model.View
\* View that looks at the dimensions before it looks at quitting.
viewScreenSizeFirst(m) ==
  IF m.width = 0 \/ m.height = 0 THEN "initializing"
  ELSE IF m.quitting THEN "quitting"
  ELSE "panes"

\* Which of its three screens View returns.
viewScreen(m) ==
  IF m.quitting THEN "quitting"
  ELSE IF m.width = 0 \/ m.height = 0 THEN "initializing"
  ELSE "panes"

\* The style View renders the writing pane with.
viewWritingStyle(m) ==
  IF m.focusedPane = writingPane THEN "focusedStyle" ELSE "paneStyle"

\* The style View renders the conversation pane with.
viewConvoStyle(m) ==
  IF m.focusedPane = writingPane THEN "paneStyle" ELSE "focusedStyle"

\* Width(m.writingModel.width + m.paneStyle.GetHorizontalFrameSize()).
viewWritingWidth(m) == m.writingModel.width + HorizontalFrameSize

\* Width(m.convoModel.width + m.paneStyle.GetHorizontalFrameSize()).
viewConvoWidth(m) == m.convoModel.width + HorizontalFrameSize

\* Height(m.writingModel.height + m.paneStyle.GetVerticalFrameSize()).
viewWritingHeight(m) == m.writingModel.height + VerticalFrameSize

\* Height(m.convoModel.height + m.paneStyle.GetVerticalFrameSize()).
viewConvoHeight(m) == m.convoModel.height + VerticalFrameSize

\* m.statusBarSyle.Width(m.width).Render(statusBarView): the line count of
\* the status line at the width View renders it.
viewStatusBarHeight(m) == statusBarViewHeight([m.statusBarModel EXCEPT !.width = m.width])

\* ------------------------------------------------------------ journal files
\* CreateEntry names the file after the clock minute:
\* now.Format("2006-01-02T15:04") + "-morning-pages.md".
FileNameAt(minute) == <<minute, "-morning-pages", ".md">>

\* The session's CreateEntry runs in minute 0.
EntryFileName == FileNameAt(0)

NoFiles == [n \in {} |-> <<>>]

\* os.WriteFile(entry.FilePath, entry.Content).
SaveEntry(fs, entry) ==
  [n \in (DOMAIN fs) \cup {entry.FileName} |->
     IF n = entry.FileName THEN entry.Content ELSE fs[n]]

NewEntry == [FileName |-> EntryFileName, Content |-> <<>>]

\* The JournalEntry CreateEntry builds in the given minute.  saved is the
\* content of the entry's last successful SaveEntry.
JournalEntry(minute) ==
  [FileName |-> FileNameAt(minute), Content |-> <<>>, WordCount |-> 0,
   IsCompleted |-> FALSE, saved |-> <<>>]

\* The storage directory NewManager has made, with nothing in it.
EmptyStorage == [exists |-> TRUE, dirs |-> {}, unreadable |-> {}]

\* os.ReadDir(StorageDir): the names in the directory.
ReadDir(fs, st) == (DOMAIN fs) \cup st.dirs

\* strings.HasSuffix(file.Name(), ".md").
HasMdSuffix(name) == name[3] = ".md"

NoListing == [entries |-> {}, err |-> FALSE, done |-> FALSE]

\* SaveEntry's updates of the entry itself, made before the file is written.
entryCounted(entry, goal) ==
  [entry EXCEPT !.WordCount = CountWords(entry.Content),
                !.IsCompleted = (CountWords(entry.Content) >= goal)]

\* ReadEntry with no result: the nil entry returned with an error.
NoEntry ==
  [FileName |-> <<0, "", "">>, Content |-> <<>>, WordCount |-> 0,
   IsCompleted |-> FALSE, saved |-> <<>>]

\* ReadEntry that counts characters, as the writing pane's WordCount does.
ReadEntryCountingChars(fs, st, name, goal) ==
  IF ~st.exists \/ name \notin ReadDir(fs, st)
  THEN [ok |-> FALSE, entry |-> NoEntry]
  ELSE IF name \in st.dirs \/ name \in st.unreadable
  THEN [ok |-> FALSE, entry |-> NoEntry]
  ELSE [ok |-> TRUE,
        entry |-> [FileName |-> name, Content |-> fs[name],
                   WordCount |-> Len(fs[name]),
                   IsCompleted |-> (Len(fs[name]) >= goal),
                   saved |-> fs[name]]]

\* Manager.ReadEntry(filePath): os.Stat fails for a missing file,
\* os.ReadFile for a directory or an unreadable file.
ReadEntry(fs, st, name, goal) ==
  IF ~st.exists \/ name \notin ReadDir(fs, st)
  THEN [ok |-> FALSE, entry |-> NoEntry]
  ELSE IF name \in st.dirs \/ name \in st.unreadable
  THEN [ok |-> FALSE, entry |-> NoEntry]
  ELSE [ok |-> TRUE,
        entry |-> [FileName |-> name, Content |-> fs[name],
                   WordCount |-> CountWords(fs[name]),
                   IsCompleted |-> (CountWords(fs[name]) >= goal),
                   saved |-> fs[name]]]

\* ListEntries that reads every file of the directory, whatever its suffix.
ListEntriesAnySuffix(fs, st, goal) ==
  IF ~st.exists
  THEN [entries |-> {}, err |-> FALSE, done |-> TRUE]
  ELSE [entries |-> {ReadEntry(fs, st, n, goal).entry :
                       n \in {f \in ReadDir(fs, st) :
                                /\ f \notin st.dirs
                                /\ ReadEntry(fs, st, f, goal).ok}},
        err |-> FALSE, done |-> TRUE]

\* Manager.ListEntries: a missing directory gives the empty list; of the
\* names read, directories and names without the suffix are skipped, and so
\* are the files ReadEntry fails on.  The entries come in the order of
\* os.ReadDir; the set leaves the order out.
ListEntries(fs, st, goal) ==
  IF ~st.exists
  THEN [entries |-> {}, err |-> FALSE, done |-> TRUE]
  ELSE [entries |-> {ReadEntry(fs, st, n, goal).entry :
                       n \in {f \in ReadDir(fs, st) :
                                /\ f \notin st.dirs
                                /\ HasMdSuffix(f)
                                /\ ReadEntry(fs, st, f, goal).ok}},
        err |-> FALSE, done |-> TRUE]

\* ------------------------------------------------------------ configuration
\* config.ConfigPath(): the file under the home directory.
ConfigPath == "config.yaml"

\* DefaultConfig: c.Journal.WordCountGoal = 750.
DefaultConfig == [WordCountGoal |-> 750, path |-> ConfigPath]

\* The nil *config.Config before PersistentPreRunE has run.
NoConfig == [WordCountGoal |-> 0, path |-> ""]

\* config.Load(logger): reads ConfigPath(); a missing file is created with
\* the defaults by Save.  path is the path Load logs.
Load(disk) ==
  IF ConfigPath \notin DOMAIN disk
  THEN [cfg  |-> DefaultConfig,
        disk |-> [p \in (DOMAIN disk) \cup {ConfigPath} |->
                    IF p = ConfigPath THEN DefaultConfig.WordCountGoal ELSE disk[p]]]
  ELSE [cfg  |-> [WordCountGoal |-> disk[ConfigPath], path |-> ConfigPath],
        disk |-> disk]

\* ------------------------------------------------------------ state
VARIABLES
  model,      \* the tui root model handed from Update to Update
  cmd,        \* the tea.Cmd returned by the last Init/Update
  lastMsg,    \* the message the last Update processed
  phase,      \* position of the command: PersistentPreRunE, then newCmd.RunE
  startup,    \* the startup steps that have succeeded, in order
  exitCode,   \* the process exit code, -1 while the process runs
  files,      \* storage directory: file name -> content
  scriptPos,  \* how far the key sequence i H e l l o esc has been followed
  tabRun,     \* number of Tab keys immediately preceding (1 or 2), else 0
  tabOrigin,  \* the focused pane before the current run of Tab keys
  configFile, \* the value of the --config flag, "" when not given
  configDisk, \* configuration files on disk: path -> stored WordCountGoal
  cfg,        \* the configuration PersistentPreRunE loaded, NoConfig before
  clock,      \* the wall clock, in minutes
  handles,    \* the *Entry values callers of the journal manager hold
  storage,    \* the storage directory: whether it exists, its
              \* subdirectories, and which of its files cannot be read
  listing     \* what ListEntries returned, while it is the last journal
              \* operation; NoListing otherwise

vars ==
  <<model, cmd, lastMsg, phase, startup, exitCode, files, scriptPos, tabRun,
    tabOrigin, configFile, configDisk, cfg, clock, handles, storage, listing>>

\* What neither the tui nor the journal steps touch.
envVars == <<configFile, configDisk, cfg, clock, handles, storage, listing>>

Script == <<"i", "H", "e", "l", "l", "o", "esc">>

Running == -1

StartupSteps == <<"logger", "config", "manager", "entry">>

Init ==
  /\ model = InitialModel
  /\ cmd = NilCmd
  /\ lastMsg = NoMsg
  /\ phase = "prerun"
  /\ startup = <<>>
  /\ exitCode = Running
  /\ files = NoFiles
  /\ scriptPos = 0
  /\ tabRun = 0
  /\ tabOrigin = writingPane
  /\ configFile = ""
  /\ configDisk = NoFiles
  /\ cfg = NoConfig
  /\ clock = 0
  /\ handles = <<>>
  /\ storage = EmptyStorage
  /\ listing = NoListing

\* Execute: an error returned by rootCmd.Execute() ends in os.Exit(1).
ExitWithError ==
  /\ phase' = "failed"
  /\ exitCode' = 1

\* PersistentPreRunE: logging.NewLogger(debug).
NewLogger ==
  /\ phase = "prerun"
  /\ \/ phase' = "logger" /\ startup' = Append(startup, "logger") /\ exitCode' = exitCode
     \/ ExitWithError /\ startup' = startup
  /\ UNCHANGED <<model, cmd, lastMsg, files, scriptPos, tabRun, tabOrigin, envVars>>

\* PersistentPreRunE: config.Load(logger).
LoadConfig ==
  /\ phase = "logger"
  /\ \/ /\ cfg' = Load(configDisk).cfg
        /\ configDisk' = Load(configDisk).disk
        /\ phase' = "config"
        /\ startup' = Append(startup, "config")
        /\ exitCode' = exitCode
     \/ /\ ExitWithError
        /\ UNCHANGED <<startup, cfg, configDisk>>
  /\ UNCHANGED <<model, cmd, lastMsg, files, scriptPos, tabRun, tabOrigin, configFile, clock, handles,
                 storage, listing>>

\* NewManager that goes on to CreateEntry whether or not it failed.
NewManagerIgnoreError ==
  /\ phase = "config"
  /\ phase' = "start"
  /\ \/ startup' = Append(startup, "manager")
     \/ startup' = startup
  /\ UNCHANGED <<model, cmd, lastMsg, exitCode, files, scriptPos, tabRun, tabOrigin, envVars>>

\* newCmd.RunE: journal.NewManager(cfg, logger).
NewManager ==
  /\ phase = "config"
  /\ \/ phase' = "start" /\ startup' = Append(startup, "manager") /\ exitCode' = exitCode
     \/ ExitWithError /\ startup' = startup
  /\ UNCHANGED <<model, cmd, lastMsg, files, scriptPos, tabRun, tabOrigin, envVars>>

\* newCmd.RunE: journalManager.CreateEntry(); the entry is discarded.  A
\* failed SaveEntry leaves no file and makes RunE return the error.
CreateEntry ==
  /\ phase = "start"
  /\ \/ /\ files' = SaveEntry(files, NewEntry)
        /\ phase' = "created"
        /\ startup' = Append(startup, "entry")
        /\ exitCode' = exitCode
     \/ /\ ExitWithError
        /\ UNCHANGED <<files, startup>>
  /\ UNCHANGED <<model, cmd, lastMsg, scriptPos, tabRun, tabOrigin, envVars>>

\* newCmd.RunE: tea.NewProgram(tuiModel).Run() starts with model.Init(); a
\* program that cannot start ends in log.Fatalf, exit code 1.
RunProgram ==
  /\ phase = "created"
  /\ \/ /\ cmd' = modelInit(model)
        /\ phase' = "tui"
        /\ exitCode' = exitCode
     \/ /\ ExitWithError
        /\ cmd' = cmd
  /\ UNCHANGED <<model, lastMsg, startup, files, scriptPos, tabRun, tabOrigin, envVars>>

\* The program delivers one message to model.Update.
Update(msg) ==
  /\ phase = "tui"
  /\ LET r == modelUpdate(model, msg)
     IN /\ model' = r.m
        /\ cmd' = r.cmd
  /\ lastMsg' = msg
  /\ scriptPos' = IF /\ scriptPos >= 0
                     /\ scriptPos < Len(Script)
                     /\ msg = KeyMsg(Script[scriptPos + 1])
                  THEN scriptPos + 1 ELSE -1
  /\ IF msg = KeyMsg("tab")
     THEN IF tabRun = 1
          THEN tabRun' = 2 /\ tabOrigin' = tabOrigin
          ELSE tabRun' = 1 /\ tabOrigin' = model.focusedPane
     ELSE tabRun' = 0 /\ tabOrigin' = model'.focusedPane
  /\ UNCHANGED <<phase, startup, exitCode, files, envVars>>

KeyPress == \E k \in Keys : Update(KeyMsg(k))

Resize == \E s \in TermSizes : Update(WindowSizeMsg(s[1], s[2]))

\* The program delivers a message of another type.
OtherEvent == Update(BlinkMsg)

\* p.Run() returns once the Quit command has been handled; RunE returns
\* nil and the process ends with exit code 0.
ProgramExit ==
  /\ phase = "tui"
  /\ model.quitting
  /\ phase' = "finished"
  /\ exitCode' = 0
  /\ UNCHANGED <<model, cmd, lastMsg, startup, files, scriptPos, tabRun, tabOrigin, envVars>>

Next ==
  \/ NewLogger
  \/ LoadConfig
  \/ NewManager
  \/ CreateEntry
  \/ RunProgram
  \/ KeyPress
  \/ Resize
  \/ OtherEvent
  \/ ProgramExit

Spec == Init /\ [][Next]_vars

\* ------------------------------------------------ layout specification
\* The program right after a successful startup, resized again and again.
\* Widths 1..6 are left out: there a word of the status line is wider than
\* the line, and how it is broken is the rendering library's business.
LayoutWidths == {0} \cup (7..MaxWidth) \cup {50, 61, 62, 120}

LayoutHeights == (0..MaxHeight) \cup {20, 40}

InitTui ==
  /\ model = InitialModel
  /\ cmd = modelInit(InitialModel)
  /\ lastMsg = NoMsg
  /\ phase = "tui"
  /\ startup = StartupSteps
  /\ exitCode = Running
  /\ files = SaveEntry(NoFiles, NewEntry)
  /\ scriptPos = 0
  /\ tabRun = 0
  /\ tabOrigin = writingPane
  /\ configFile = ""
  /\ configDisk = Load(NoFiles).disk
  /\ cfg = Load(NoFiles).cfg
  /\ clock = 0
  /\ handles = <<>>
  /\ storage = EmptyStorage
  /\ listing = NoListing

ResizeAny == \E w \in LayoutWidths, h \in LayoutHeights : Update(WindowSizeMsg(w, h))

NextLayout == ResizeAny

SpecLayout == InitTui /\ [][NextLayout]_vars

\* ------------------------------------------------ Normal-mode specification
\* The running program with a user who presses the verbs and the other
\* Normal-mode letters only while the writing pane is in Normal mode, and
\* types H and spaces in Insert mode.
NormalSpecKeys ==
  NormalOnlyKeys \cup {"i", "o", "l", "H", " ", "esc", "tab", "q", "backspace", "left"}

KeyPressNormal ==
  \E k \in NormalSpecKeys :
    /\ k \in NormalOnlyKeys \cup {"i", "o", "l"} => model.writingModel.mode = modeNormal
    /\ Update(KeyMsg(k))

NextNormal ==
  \/ KeyPressNormal
  \/ ProgramExit

SpecNormal == InitTui /\ [][NextNormal]_vars

\* ------------------------------------------------ configuration specification
\* The whole command, started with or without --config, over the
\* configuration files the disk may hold.
CustomConfigPath == "custom.yaml"

ConfigFlags == {"", CustomConfigPath}

ConfigGoals == {750, 500}

ConfigDisks ==
  UNION {[ps -> ConfigGoals] : ps \in SUBSET {ConfigPath, CustomConfigPath}}

InitConfig ==
  /\ model = InitialModel
  /\ cmd = NilCmd
  /\ lastMsg = NoMsg
  /\ phase = "prerun"
  /\ startup = <<>>
  /\ exitCode = Running
  /\ files = NoFiles
  /\ scriptPos = 0
  /\ tabRun = 0
  /\ tabOrigin = writingPane
  /\ configFile \in ConfigFlags
  /\ configDisk \in ConfigDisks
  /\ cfg = NoConfig
  /\ clock = 0
  /\ handles = <<>>
  /\ storage = EmptyStorage
  /\ listing = NoListing

NextConfig ==
  \/ NewLogger
  \/ LoadConfig
  \/ NewManager
  \/ CreateEntry
  \/ RunProgram
  \/ KeyPressNormal
  \/ ProgramExit

SpecConfig == InitConfig /\ [][NextConfig]_vars

\* ------------------------------------------------ journal specification
\* A client of the journal Manager that creates entries, edits their
\* Content and saves them, while the clock advances.
MaxEntries == 2

MaxClock == 1

JournalContents == {<<>>, <<"H", " ", "i">>}

JournalGoals == {2, 750}

\* Names the storage directory may hold besides the entries made here.
OldEntryName == <<-1, "-morning-pages", ".md">>

NotesName == <<0, "notes", ".txt">>

DraftsDirName == <<0, "drafts", ".md">>

LockedName == <<0, "locked", ".md">>

\* The storage directory the client finds: removed since the manager made
\* it, empty, or holding an older entry, a text file, a subdirectory and an
\* entry that cannot be read.
JournalDisks ==
  { [files |-> NoFiles, storage |-> [exists |-> FALSE, dirs |-> {}, unreadable |-> {}]],
    [files |-> NoFiles, storage |-> EmptyStorage],
    [files |-> [n \in {OldEntryName, NotesName, LockedName} |->
                 IF n = OldEntryName THEN <<"H", " ", "i">> ELSE <<"H">>],
     storage |-> [exists |-> TRUE, dirs |-> {DraftsDirName}, unreadable |-> {LockedName}]] }

InitJournal ==
  /\ model = InitialModel
  /\ cmd = NilCmd
  /\ lastMsg = NoMsg
  /\ phase = "journal"
  /\ startup = <<"logger", "config", "manager">>
  /\ exitCode = Running
  /\ \E d \in JournalDisks : files = d.files /\ storage = d.storage
  /\ scriptPos = 0
  /\ tabRun = 0
  /\ tabOrigin = writingPane
  /\ configFile = ""
  /\ \E g \in JournalGoals :
       /\ configDisk = [p \in {ConfigPath} |-> g]
       /\ cfg = Load([p \in {ConfigPath} |-> g]).cfg
  /\ clock = 0
  /\ handles = <<>>
  /\ listing = NoListing

journalFrame ==
  UNCHANGED <<model, cmd, lastMsg, phase, startup, exitCode, scriptPos, tabRun,
              tabOrigin, configFile, configDisk, cfg>>

\* Manager.CreateEntry: the entry of the current minute, empty, written by
\* SaveEntry; a failed write returns no entry.
ManagerCreateEntry ==
  /\ phase = "journal"
  /\ Len(handles) < MaxEntries
  /\ LET entry == entryCounted(JournalEntry(clock), cfg.WordCountGoal)
     IN \/ /\ files' = SaveEntry(files, entry)
           /\ storage' = [storage EXCEPT !.exists = TRUE]
           /\ handles' = Append(handles, [entry EXCEPT !.saved = entry.Content])
        \/ UNCHANGED <<files, handles, storage>>
  /\ clock' = clock
  /\ listing' = NoListing
  /\ journalFrame

\* The client sets entry.Content and calls Manager.SaveEntry(entry); the
\* entry's counts are updated even when the write fails.
ManagerSaveEntry ==
  /\ phase = "journal"
  /\ \E i \in DOMAIN handles, c \in JournalContents :
       LET entry == entryCounted([handles[i] EXCEPT !.Content = c], cfg.WordCountGoal)
       IN \/ /\ files' = SaveEntry(files, entry)
             /\ storage' = [storage EXCEPT !.exists = TRUE]
             /\ handles' = [handles EXCEPT ![i] = [entry EXCEPT !.saved = c]]
          \/ /\ UNCHANGED <<files, storage>>
             /\ handles' = [handles EXCEPT ![i] = entry]
  /\ clock' = clock
  /\ listing' = NoListing
  /\ journalFrame

\* The client calls Manager.ReadEntry on a path of the storage directory
\* and keeps the entry it gets.
ManagerReadEntry ==
  /\ phase = "journal"
  /\ Len(handles) < MaxEntries
  /\ \E n \in ReadDir(files, storage) \cup {OldEntryName} :
       LET r == ReadEntry(files, storage, n, cfg.WordCountGoal)
       IN handles' = IF r.ok THEN Append(handles, r.entry) ELSE handles
  /\ listing' = NoListing
  /\ UNCHANGED <<files, storage, clock>>
  /\ journalFrame

\* Manager.ListEntries; os.ReadDir may fail for another reason than a
\* missing directory, and then the call fails.
ManagerListEntries ==
  /\ phase = "journal"
  /\ \/ listing' = ListEntries(files, storage, cfg.WordCountGoal)
     \/ listing' = [entries |-> {}, err |-> TRUE, done |-> TRUE]
  /\ UNCHANGED <<files, storage, clock, handles>>
  /\ journalFrame

\* A minute passes.
Tick ==
  /\ phase = "journal"
  /\ clock < MaxClock
  /\ clock' = clock + 1
  /\ listing' = NoListing
  /\ UNCHANGED <<files, handles, storage>>
  /\ journalFrame

NextJournal ==
  \/ ManagerCreateEntry
  \/ ManagerSaveEntry
  \/ ManagerReadEntry
  \/ ManagerListEntries
  \/ Tick

SpecJournal == InitJournal /\ [][NextJournal]_vars

\* ------------------------------------------------------------ properties
wm == model.writingModel

buffer == model.writingModel.textarea

\* A step in which model.Update processed a message.
UpdateStep == phase = "tui" /\ phase' = "tui"

KeyStep(k) == UpdateStep /\ lastMsg' = KeyMsg(k)

\* C1: from the initial state, the keys i, H, e, l, l, o, Escape leave the
\* writing pane in Normal mode with buffer content "Hello".
HelloScenario ==
  scriptPos = Len(Script) =>
    /\ wm.mode = modeNormal
    /\ textareaValue(buffer) = <<"H", "e", "l", "l", "o">>

\* C2 (as stated): mode = Insert never holds while the conversation pane
\* is focused.
InsertOnlyWhileWritingFocused ==
  wm.mode = modeInsert => model.focusedPane = writingPane

\* C2 (amended): the writing pane is in Insert mode with its buffer
\* accepting input only while the writing pane is the focused pane.
InsertInputOnlyWhileWritingFocused ==
  (wm.mode = modeInsert /\ buffer.focus) => model.focusedPane = writingPane

\* A Tab has moved focus away from a writing pane that stays in Insert mode.
InsertKeptUnderConversationFocus ==
  /\ lastMsg = KeyMsg("tab")
  /\ model.focusedPane = conversationPane
  /\ wm.mode = modeInsert
  /\ ~buffer.focus

\* C3: after a clean quit the file of the entry created at session start
\* holds the buffer content.
QuitSavesBuffer ==
  phase = "finished" => files[EntryFileName] = textareaValue(buffer)

\* C4: a quit key sets quitting, returns the Quit command and reaches no
\* pane; quitting never goes back to false.
QuitKeySetsQuitting ==
  [][/\ \A k \in QuitKeys :
          KeyStep(k) => /\ model'.quitting
                        /\ cmd' = QuitCmd
                        /\ model' = [model EXCEPT !.quitting = TRUE]
     /\ model.quitting => model'.quitting]_vars

\* q was pressed with the conversation pane focused and Normal mode.
QuitPressed ==
  /\ lastMsg = KeyMsg("q")
  /\ model.quitting
  /\ cmd = QuitCmd
  /\ model.focusedPane = conversationPane
  /\ wm.mode = modeNormal

\* C5: once quitting is true, a key processed by Update changes neither
\* the mode, the buffer content, the buffer's focus flag nor the focused pane.
KeysAfterQuitHaveNoEffect ==
  [][(model.quitting /\ UpdateStep /\ lastMsg'.type = "KeyMsg") =>
        /\ model'.writingModel.mode = wm.mode
        /\ model'.writingModel.textarea.value = buffer.value
        /\ model'.writingModel.textarea.focus = buffer.focus
        /\ model'.focusedPane = model.focusedPane]_vars

Other(pane) == IF pane = writingPane THEN conversationPane ELSE writingPane

\* C6: Tab flips the focused pane and is not forwarded to a pane; two
\* consecutive Tabs give the focus back to the pane that had it.
TabTogglesFocus ==
  /\ [](tabRun = 2 => model.focusedPane = tabOrigin)
  /\ [][KeyStep("tab") =>
          /\ model'.focusedPane = Other(model.focusedPane)
          /\ model'.writingModel.mode = wm.mode
          /\ model'.writingModel.textarea.value = buffer.value
          /\ model'.writingModel.textarea.cursor = buffer.cursor]_vars

\* Two Tabs in a row, pressed in Normal mode from the conversation pane.
TwoTabsPressed ==
  /\ tabRun = 2
  /\ tabOrigin = conversationPane
  /\ model.focusedPane = conversationPane
  /\ wm.mode = modeNormal

\* C7: with the conversation pane focused, a key other than Tab and the
\* quit keys leaves the writing pane (mode, content, cursor, focus flag)
\* as it was.
UnfocusedWritingPaneUntouched ==
  [][\A k \in Keys \ (QuitKeys \cup {"tab"}) :
        (KeyStep(k) /\ model.focusedPane = conversationPane) =>
           /\ model'.writingModel = wm
           /\ model'.focusedPane = conversationPane]_vars

\* Escape was pressed under conversation focus and the mode is still Insert.
EscapeUnderConversationFocus ==
  /\ lastMsg = KeyMsg("esc")
  /\ model.focusedPane = conversationPane
  /\ wm.mode = modeInsert

\* C8: the pane starts in Insert; Escape in Insert gives Normal, Escape in
\* Normal stays Normal, i in Normal gives Insert.
ModeTransitions ==
  /\ [](phase \notin {"tui", "finished"} => wm.mode = modeInsert)
  /\ [][(UpdateStep /\ model.focusedPane = writingPane) =>
          /\ (lastMsg' = KeyMsg("esc") /\ wm.mode = modeInsert)
                => model'.writingModel.mode = modeNormal
          /\ (lastMsg' = KeyMsg("esc") /\ wm.mode = modeNormal)
                => model'.writingModel.mode = modeNormal
          /\ (lastMsg' = KeyMsg("i") /\ wm.mode = modeNormal)
                => model'.writingModel.mode = modeInsert]_vars

\* i has just brought the pane from Normal back to Insert: the buffer is
\* focused again and still empty.
BackInInsert ==
  /\ lastMsg = KeyMsg("i")
  /\ model.focusedPane = writingPane
  /\ wm.mode = modeInsert
  /\ buffer.focus
  /\ buffer.value = <<>>
  /\ cmd = BlinkCmd

\* C9: in Normal mode with the writing pane focused, each of i, a, o
\* moves the pane to Insert mode.
InsertKeysEnterInsert ==
  [][\A k \in {"i", "a", "o"} :
        (KeyStep(k) /\ model.focusedPane = writingPane /\ wm.mode = modeNormal)
           => model'.writingModel.mode = modeInsert]_vars

\* C10: the writing pane's word count is the number of maximal runs of
\* non-whitespace characters of its buffer content.
WordCountIsTokenCount ==
  WordCount(wm) = CountWords(textareaValue(buffer))

\* C16: startup is all-or-nothing: a failed step ends the process with
\* exit code 1 before any message reaches the TUI; the TUI runs only after
\* logger, config, manager and entry succeeded in that order; a clean quit
\* ends with exit code 0.
StartupAllOrNothing ==
  /\ phase = "failed" =>
       /\ exitCode = 1
       /\ lastMsg = NoMsg
       /\ cmd = NilCmd
       /\ model = InitialModel
  /\ phase \in {"tui", "finished"} =>
       /\ startup = StartupSteps
       /\ EntryFileName \in DOMAIN files
  /\ phase = "finished" => exitCode = 0
  /\ phase \notin {"failed", "finished"} => exitCode = Running

\* The manager could not be built: the process ended with code 1 after
\* logger and config, with no entry file.
ManagerFailed ==
  /\ phase = "failed"
  /\ startup = <<"logger", "config">>
  /\ exitCode = 1
  /\ files = NoFiles

\* C11: the word count the status bar shows is the writing pane's current
\* word count.
StatusBarShowsWordCount ==
  statusBarShownCount(model.statusBarModel) = WordCount(wm)

\* The pane widths updateSizes computed: the interior widths it handed to
\* the panes plus the border it subtracted.
writingWidthOf(m) == m.writingModel.width + HorizontalBorderSize

convoWidthOf(m) == m.convoModel.width + HorizontalBorderSize

Resized == lastMsg.type = "WindowSizeMsg"

\* C12: after a resize to W >= 20, H >= 5 the two pane widths sum to W,
\* the interior widths sum to W less the fixed border overhead, and both
\* pane widths are at least 10.
WidthsSumToTerminal ==
  (Resized /\ lastMsg.Width >= 20 /\ lastMsg.Height >= 5) =>
    /\ writingWidthOf(model) + convoWidthOf(model) = lastMsg.Width
    /\ model.writingModel.width + model.convoModel.width
         = lastMsg.Width - 2 * HorizontalBorderSize
    /\ writingWidthOf(model) >= 10
    /\ convoWidthOf(model) >= 10

\* Resized to 20x5: the conversation pane was raised to 10 and the writing
\* pane gave way.
ResizedToTwentyByFive ==
  /\ lastMsg = WindowSizeMsg(20, 5)
  /\ model.width = 20
  /\ writingWidthOf(model) = 10
  /\ convoWidthOf(model) = 10

\* C13: at terminal width 15 both pane widths are 10, and no pane width is
\* negative for any width W >= 0.
SmallTerminalClamps ==
  Resized =>
    /\ lastMsg.Width = 15 => (writingWidthOf(model) = 10 /\ convoWidthOf(model) = 10)
    /\ writingWidthOf(model) >= 0
    /\ convoWidthOf(model) >= 0

\* The geometry a model holds: pane sizes and the status-bar height.
Geometry(m) ==
  [writingWidth |-> m.writingModel.width,
   writingHeight |-> m.writingModel.height,
   textareaHeight |-> m.writingModel.textarea.height,
   convoWidth |-> m.convoModel.width,
   convoHeight |-> m.convoModel.height,
   statusBarHeight |-> statusBarViewHeight(m.statusBarModel)]

\* The model after a first resize to w x h.
FirstResize(w, h) == modelUpdate(InitialModel, WindowSizeMsg(w, h)).m

\* C14: the geometry after a resize to W x H is the geometry of a first
\* resize to W x H, whatever sizes came before.
GeometryDependsOnEventOnly ==
  Resized => Geometry(model) = Geometry(FirstResize(lastMsg.Width, lastMsg.Height))

\* 0.65*W rounded to the nearest integer.
RoundedShare(w) == CHOOSE n \in 0..(w + 1) : 13 * w - 10 < 20 * n /\ 20 * n <= 13 * w + 10

\* 0.65*W truncated: the largest integer not above it.
TruncatedShare(w) == CHOOSE n \in 0..w : 20 * n <= 13 * w /\ 13 * w < 20 * (n + 1)

\* Neither pane width was clamped: a clamp leaves one of them at 10 or below.
Unclamped == Resized /\ writingWidthOf(model) > 10 /\ convoWidthOf(model) > 10

\* C15 (as stated): the unclamped writing width is 0.65*W rounded to the
\* nearest integer and the conversation pane gets the rest.
SplitIsRounded ==
  Unclamped =>
    /\ writingWidthOf(model) = RoundedShare(lastMsg.Width)
    /\ convoWidthOf(model) = lastMsg.Width - RoundedShare(lastMsg.Width)

\* C15 (amended): the unclamped writing width is 0.65*W truncated to an
\* integer and the conversation pane gets the rest.
SplitIsTruncated ==
  Unclamped =>
    /\ writingWidthOf(model) = TruncatedShare(lastMsg.Width)
    /\ convoWidthOf(model) = lastMsg.Width - TruncatedShare(lastMsg.Width)

\* Resized to width 50, where 32.5 truncates to 32 and would round to 33.
ResizedToFifty ==
  /\ lastMsg = WindowSizeMsg(50, 20)
  /\ writingWidthOf(model) = 32
  /\ convoWidthOf(model) = 18

InsertKeysReachBuffer ==
  [][\A k \in Keys \ (QuitKeys \cup {"tab", "esc"}) :
        (KeyStep(k) /\ model.focusedPane = writingPane /\ wm.mode = modeInsert) =>
           /\ model'.writingModel.mode = modeInsert
           /\ model'.writingModel = [wm EXCEPT !.textarea = textareaUpdate(buffer, k).ta]
           /\ (k \in RuneKeys /\ buffer.focus /\ Len(buffer.value) < MaxLen) =>
                /\ model'.writingModel.textarea.value = InsertAt(buffer.value, buffer.cursor, k)
                /\ model'.writingModel.textarea.cursor = buffer.cursor + 1
           /\ (k = "backspace" /\ buffer.focus /\ buffer.cursor > 0) =>
                Len(model'.writingModel.textarea.value) = Len(buffer.value) - 1]_vars

\* A second H was typed into the focused buffer.
TypedInInsert ==
  /\ lastMsg = KeyMsg("H")
  /\ model.focusedPane = writingPane
  /\ wm.mode = modeInsert
  /\ buffer.focus
  /\ buffer.value = <<"H", "H">>
  /\ buffer.cursor = 2

\* C19: in Normal mode with the writing pane focused, a movement key moves
\* the buffer's cursor when the move is possible, content and mode unchanged.
NormalMovementMovesCursor ==
  [][/\ (/\ KeyStep("left")
         /\ model.focusedPane = writingPane
         /\ wm.mode = modeNormal
         /\ buffer.cursor > 0)
          => /\ model'.writingModel.textarea.cursor = buffer.cursor - 1
             /\ model'.writingModel.textarea.value = buffer.value
             /\ model'.writingModel.mode = modeNormal
     /\ (/\ KeyStep("right")
         /\ model.focusedPane = writingPane
         /\ wm.mode = modeNormal
         /\ buffer.cursor < Len(buffer.value))
          => /\ model'.writingModel.textarea.cursor = buffer.cursor + 1
             /\ model'.writingModel.textarea.value = buffer.value
             /\ model'.writingModel.mode = modeNormal]_vars

AtLeastTen(n) == IF n < 10 THEN 10 ELSE n

\* The pane widths the layout rule gives for terminal width w: 65% floored
\* at 10, the rest floored at 10, the writing pane giving way to that floor.
ExpectedWritingWidth(w) ==
  IF w - AtLeastTen(TruncatedShare(w)) < 10
  THEN w - 10
  ELSE AtLeastTen(TruncatedShare(w))

ExpectedConvoWidth(w) == AtLeastTen(w - AtLeastTen(TruncatedShare(w)))

\* C20: a resize to W x H stores W and H, gives the status bar width W and
\* the panes the sizes computed for this event (heights from the status bar
\* as it is rendered when the event arrives), and leaves focus, mode, buffer
\* and quitting alone.
ResizeStoresSizes ==
  [][\A s \in TermSizes :
        (UpdateStep /\ lastMsg' = WindowSizeMsg(s[1], s[2])) =>
           LET paneHeight == s[2] - statusBarViewHeight(model.statusBarModel)
                               - VerticalBorderSize
           IN /\ model'.width = s[1]
              /\ model'.height = s[2]
              /\ model'.statusBarModel.width = s[1]
              /\ writingWidthOf(model') = ExpectedWritingWidth(s[1])
              /\ convoWidthOf(model') = ExpectedConvoWidth(s[1])
              /\ model'.writingModel.height = paneHeight
              /\ model'.convoModel.height = paneHeight
              /\ model'.writingModel.textarea.width = model'.writingModel.width
              /\ model'.focusedPane = model.focusedPane
              /\ model'.quitting = model.quitting
              /\ model'.writingModel.mode = wm.mode
              /\ model'.writingModel.textarea.value = buffer.value
              /\ model'.writingModel.textarea.cursor = buffer.cursor
              /\ model'.writingModel.textarea.focus = buffer.focus
              /\ cmd' = NilCmd]_vars

\* Resized to 15x5 with the conversation pane focused, Normal mode and text
\* in the buffer.
ResizedWithText ==
  /\ lastMsg = WindowSizeMsg(15, 5)
  /\ model.width = 15
  /\ model.height = 5
  /\ model.statusBarModel.width = 15
  /\ model.convoModel.width = 10 - HorizontalBorderSize
  /\ model.focusedPane = conversationPane
  /\ wm.mode = modeNormal
  /\ buffer.value = <<"H", "i">>

\* C21: after a resize, the pane widths View renders (interior plus frame
\* size) sum to the terminal width, and the rendered pane height plus the
\* status-bar height equals the terminal height.
RenderedSizesFitTerminal ==
  (Resized /\ viewScreen(model) = "panes") =>
    /\ viewWritingWidth(model) + viewConvoWidth(model) = model.width
    /\ viewWritingHeight(model) + viewStatusBarHeight(model) = model.height
    /\ viewConvoHeight(model) + viewStatusBarHeight(model) = model.height

StatusBarShowsConfiguredGoal ==
  phase = "tui" => statusBarShownGoal(model.statusBarModel) = cfg.WordCountGoal

\* C24: when --config names a file, the configuration is loaded from that
\* file; the default path is used only when the flag is not given.
ConfigLoadedFromFlag ==
  phase \in {"config", "start", "created", "tui", "finished"} =>
    cfg.path = (IF configFile /= "" THEN configFile ELSE ConfigPath)

\* C25: whenever the writing pane is focused and its mode is Insert, the
\* initial state included, the text buffer is focused.
InsertFocusedPaneHasFocusedBuffer ==
  (model.focusedPane = writingPane /\ wm.mode = modeInsert) => buffer.focus

CreateEntryKeepsSavedEntries ==
  [][(phase = "journal" /\ Len(handles') > Len(handles) /\ files' /= files) =>
       \A i \in DOMAIN handles :
         /\ handles[i].FileName \in DOMAIN files'
         /\ files'[handles[i].FileName] = files[handles[i].FileName]]_vars

\* C28: a Tab that moves focus away from the writing pane blurs the buffer;
\* a Tab that moves focus to the writing pane focuses the buffer and returns
\* the cursor-blink command exactly when the mode is Insert, and in Normal
\* mode leaves the buffer blurred and returns no command; two Tabs from a
\* writing pane in Insert mode, as in the initial state, end with the
\* writing pane focused and the buffer focused.
TabBlursAndRefocuses ==
  /\ [][KeyStep("tab") =>
         /\ model.focusedPane = writingPane =>
              /\ model'.focusedPane = conversationPane
              /\ ~model'.writingModel.textarea.focus
              /\ cmd' = NilCmd
         /\ (model.focusedPane = conversationPane /\ wm.mode = modeInsert) =>
              /\ model'.focusedPane = writingPane
              /\ model'.writingModel.textarea.focus
              /\ cmd' = BlinkCmd
         /\ (model.focusedPane = conversationPane /\ wm.mode = modeNormal) =>
              /\ model'.focusedPane = writingPane
              /\ ~model'.writingModel.textarea.focus
              /\ cmd' = NilCmd
         /\ model'.writingModel.mode = wm.mode
         /\ model'.writingModel.textarea.value = buffer.value
         /\ model'.writingModel.textarea.cursor = buffer.cursor]_vars
  /\ []((tabRun = 2 /\ tabOrigin = writingPane /\ wm.mode = modeInsert) =>
          (model.focusedPane = writingPane /\ buffer.focus))

\* The first two keys of the session were Tabs: the writing pane is focused
\* again and the buffer, blurred at the start, is now focused.
TwoTabsFromStart ==
  /\ tabRun = 2
  /\ tabOrigin = writingPane
  /\ wm.mode = modeInsert
  /\ buffer.value = <<>>
  /\ model.width = 0
  /\ model.focusedPane = writingPane
  /\ buffer.focus
  /\ cmd = BlinkCmd

\* C29: Escape in Insert mode switches to Normal, blurs the buffer, is not
\* forwarded to the buffer (content and cursor stay), and returns no command.
EscapeBlursAndIsConsumed ==
  [][(KeyStep("esc") /\ model.focusedPane = writingPane /\ wm.mode = modeInsert) =>
       /\ model'.writingModel.mode = modeNormal
       /\ ~model'.writingModel.textarea.focus
       /\ model'.writingModel.textarea = [buffer EXCEPT !.focus = FALSE]
       /\ model'.writingModel = [wm EXCEPT !.mode = modeNormal,
                                           !.textarea = [buffer EXCEPT !.focus = FALSE]]
       /\ model' = [model EXCEPT !.writingModel = model'.writingModel]
       /\ cmd' = NilCmd]_vars

\* Escape was pressed with the cursor inside typed text.
EscapedInsideText ==
  /\ lastMsg = KeyMsg("esc")
  /\ model.focusedPane = writingPane
  /\ wm.mode = modeNormal
  /\ ~buffer.focus
  /\ buffer.value = <<"H", "i">>
  /\ buffer.cursor = 1
  /\ cmd = NilCmd

\* C30: the text buffer is focused only if the writing pane is the focused
\* pane and its mode is Insert.
BufferFocusedOnlyInFocusedInsert ==
  buffer.focus => (model.focusedPane = writingPane /\ wm.mode = modeInsert)

\* The buffer is focused and has taken text since the writing pane got the
\* focus back.
BufferFocusedAndTyping ==
  /\ buffer.focus
  /\ model.focusedPane = writingPane
  /\ wm.mode = modeInsert
  /\ lastMsg = KeyMsg("H")
  /\ buffer.value = <<"H">>

OtherEventsChangeNothing ==
  [][(UpdateStep /\ lastMsg'.type \notin {"KeyMsg", "WindowSizeMsg"}) =>
       /\ model' = model
       /\ cmd' = NilCmd]_vars

\* A blink tick arrived while the buffer was focused and held text.
BlinkTickWhileTyping ==
  /\ lastMsg = BlinkMsg
  /\ model.focusedPane = writingPane
  /\ wm.mode = modeInsert
  /\ buffer.focus
  /\ buffer.value = <<"H">>
  /\ cmd = NilCmd

\* C33: after any resize to W >= 0 and H >= 0, every height handed to the
\* writing pane, the conversation pane and the buffer viewport is
\* non-negative.
HeightsNeverNegative ==
  Resized =>
    /\ model.writingModel.height >= 0
    /\ model.convoModel.height >= 0
    /\ model.writingModel.height - renderModeIndicatorHeight(model.writingModel) >= 0

\* C34: after every successful SaveEntry or ReadEntry, the entry's
\* WordCount is CountWords of its Content, and IsCompleted is true exactly
\* when WordCount is at least the configured WordCountGoal.
EntryCountsMatchContent ==
  \A i \in DOMAIN handles :
    /\ handles[i].WordCount = CountWords(handles[i].Content)
    /\ handles[i].IsCompleted <=> (handles[i].WordCount >= cfg.WordCountGoal)

\* An entry read from disk and an entry saved with two words, with a goal
\* of two words: both are completed.
ReadAndSavedEntriesCompleted ==
  /\ cfg.WordCountGoal = 2
  /\ Len(handles) = 2
  /\ handles[1].FileName = OldEntryName
  /\ handles[1].WordCount = 2
  /\ handles[1].IsCompleted
  /\ handles[2].FileName = FileNameAt(0)
  /\ handles[2].saved = <<"H", " ", "i">>
  /\ handles[2].IsCompleted

\* The names ListEntries has an entry for: the files of the storage
\* directory that are no directories, end in .md and can be read.
Listable ==
  {n \in DOMAIN files : n \notin storage.dirs /\ n[3] = ".md" /\ n \notin storage.unreadable}

\* C35: ListEntries returns exactly one entry for each file of the storage
\* directory that is no directory, ends in .md and can be read; the others
\* are skipped without failing the call, and a missing storage directory
\* yields an empty list with no error.
ListEntriesListsReadableMarkdown ==
  (listing.done /\ ~listing.err) =>
    /\ \A n \in (IF storage.exists THEN Listable ELSE {}) :
         /\ Cardinality({e \in listing.entries : e.FileName = n}) = 1
         /\ \A e \in listing.entries : e.FileName = n => e.Content = files[n]
    /\ \A e \in listing.entries : storage.exists /\ e.FileName \in Listable
    /\ ~storage.exists => listing.entries = {}

\* ListEntries ran over a directory holding an old entry, a new entry, a
\* text file, a subdirectory and an unreadable entry, and returned two.
ListedMixedDirectory ==
  /\ listing.done
  /\ ~listing.err
  /\ DOMAIN files = {OldEntryName, NotesName, LockedName, FileNameAt(0)}
  /\ storage.dirs = {DraftsDirName}
  /\ storage.unreadable = {LockedName}
  /\ {e.FileName : e \in listing.entries} = {OldEntryName, FileNameAt(0)}

\* C36: after every SetSize(w, h) on the writing pane, in either mode, the
\* buffer viewport's height is h minus the one line of the mode indicator,
\* so indicator plus viewport never exceed the allotted height h.
ViewportLeavesRoomForIndicator ==
  Resized =>
    /\ buffer.height = wm.height - renderModeIndicatorHeight(wm)
    /\ renderModeIndicatorHeight(wm) + buffer.height <= wm.height

\* C37: View returns the quit message whenever quitting is set, whatever
\* the dimensions; the initializing placeholder when not quitting and the
\* width or the height is 0; and only otherwise the two panes, with the
\* focused style on exactly the focused pane.
ViewSelectsByState ==
  /\ model.quitting => viewScreen(model) = "quitting"
  /\ (~model.quitting /\ (model.width = 0 \/ model.height = 0)) =>
       viewScreen(model) = "initializing"
  /\ (~model.quitting /\ model.width /= 0 /\ model.height /= 0) =>
       /\ viewScreen(model) = "panes"
       /\ viewWritingStyle(model) = "focusedStyle" <=> model.focusedPane = writingPane
       /\ viewConvoStyle(model) = "focusedStyle" <=> model.focusedPane = conversationPane
       /\ viewWritingStyle(model) /= viewConvoStyle(model)

\* The user quit before the terminal reported its size.
QuitBeforeFirstResize ==
  /\ phase = "tui"
  /\ lastMsg = KeyMsg("q")
  /\ model.quitting
  /\ model.width = 0
  /\ viewScreen(model) = "quitting"

====
